---- MODULE Spec2Model ----
(***************************************************************************)
(* Model of ec2-images/assemble.py: the image build pipeline               *)
(* (main -> format_disk -> set_up_boot -> compress_product), the loop      *)
(* device and mount scopes, the PE/COFF measurement (hash_pe_coff) and the *)
(* chunked copy (copy).                                                    *)
(***************************************************************************)
EXTENDS Integers, Sequences, FiniteSets, TLC

(* ------------------------------ bounds ------------------------------- *)
\* Number of builds that may run on the host at the same time.
NumBuilds == 2
\* Number of loop devices (/dev/loop1 .. /dev/loopN) the host offers.
NumLoopDevs == 2

Builds == 1 .. NumBuilds
LoopDevs == 1 .. NumLoopDevs
NoDev == 0

(* ------------------------- program constants ------------------------- *)
SECTOR == 512
MB == 1024 * 1024
GB == 1024 * 1024 * 1024
FOOTER_SECTORS == 34
ESP_SECTORS == 409600
\* "first-lba: 2048" of the sfdisk script, and the 2048 of `remaining`.
FIRST_LBA == 2048

VARIABLES
    pc,         \* pc[b]: the statement build b executes next
    exc,        \* exc[b]: an exception is propagating in build b
    loopdev,    \* loopdev[b]: the device `losetup --find --show` printed
    part,       \* part[b]: the partition of the device being worked on
    cwd,        \* cwd[b]: "build" (mkosi.output/ubuntu~jammy) or "mnt"
    mounted,    \* mounted[b]: partitions of build b's device still mounted
    image,      \* image[b]: image.raw of build b and what is on it
    loopTable,  \* the kernel's loop device table: device -> build, or 0
    err,        \* err[b]: some step of build b has failed (observer)
    calls,      \* calls[b]: how often build b has issued each device command
                \*           <<command, partition, succeeded>> (observer)
    \* hash_pe_coff(fh), run on a file and then on a variant of it
    hfile,      \* the file's bytes
    hflip,      \* offset (from 0) of the byte the variant changes; -1: none
    hrun,       \* 1: the call on the file, 2: the call on the variant
    hpc,        \* the statement hash_pe_coff executes next
    hpos,       \* fh's position
    hbuf,       \* buf
    hasher,     \* everything hasher.update was given so far
    hresult,    \* hresult[r]: what call r returned, or how it ended
    \* copy(in_fh, out_fh)
    cin,        \* the bytes of in_fh's file (the blob)
    cinpos,     \* in_fh's position
    cout,       \* the bytes of out_fh's file (the target)
    coutpos,    \* out_fh's position
    cdata,      \* data
    cpc,        \* the statement copy executes next
    creads,     \* number of in_fh.read calls so far (observer)
    cstart      \* the target and out_fh's position at the call (observer)

buildVars == <<pc, exc, loopdev, part, cwd, mounted, image, loopTable, err, calls>>

hashVars == <<hfile, hflip, hrun, hpc, hpos, hbuf, hasher, hresult>>

copyVars == <<cin, cinpos, cout, coutpos, cdata, cpc, creads, cstart>>

vars == <<buildVars, hashVars, copyVars>>

(* ------------------------------ helpers ------------------------------ *)
Min(S) == CHOOSE x \in S : \A y \in S : x <= y

\* The device commands the observer counts, each with the partition it is
\* given (0: the whole device) and whether it succeeded.
Commands ==
    ({"losetup", "detach"} \X {0} \X BOOLEAN)
    \cup ({"mount", "umount"} \X {1, 2} \X BOOLEAN)

\* How often build b issued command c on partition p.
Issued(b, c, p) == calls[b][<<c, p, TRUE>>] + calls[b][<<c, p, FALSE>>]

Succeeded(b, c, p) == calls[b][<<c, p, TRUE>>]

Failed(b, c, p) == calls[b][<<c, p, FALSE>>]

Record(b, c, p, ok) ==
    calls' = [calls EXCEPT ![b][<<c, p, ok>>] = @ + 1]

(* ---------------------------- format_disk ---------------------------- *)
remaining_noparen == GB \div SECTOR - FIRST_LBA + ESP_SECTORS + FOOTER_SECTORS

remaining_nofooter == GB \div SECTOR - (FIRST_LBA + ESP_SECTORS)

\* line 129
remaining == GB \div SECTOR - (FIRST_LBA + ESP_SECTORS + FOOTER_SECTORS)

\* lines 130-135: the script handed to sfdisk (sizes in declared order)
table ==
    << [size |-> ESP_SECTORS, name |-> "EFI System Partition"],
       [size |-> remaining, name |-> "State Partition"] >>

\* sfdisk's default start: the first unassigned sector at or after
\* first-lba, aligned to the 1 MiB grain (2048 sectors of 512 bytes).
AlignUp(x, g) == ((x + g - 1) \div g) * g

RECURSIVE Layout(_, _)
Layout(t, from) ==
    IF t = << >> THEN << >>
    ELSE LET start == AlignUp(from, MB \div SECTOR)
         IN  << [start |-> start, size |-> Head(t).size, name |-> Head(t).name] >>
             \o Layout(Tail(t), start + Head(t).size)

Parts == {1, 2}

NoFs == [p \in Parts |-> "none"]

NoImage == [exists |-> FALSE, size |-> 0, ptable |-> << >>,
            fs |-> NoFs, files |-> {}]

(* -------------------------------- run -------------------------------- *)
run_nocheck == FALSE

\* line 153: kwargs.setdefault("check", True)
run_check == TRUE

\* subprocess.run raises CalledProcessError on a non-zero exit iff check
Raises(ok) == ~ok /\ run_check

\* Control leaves a statement: to `next`, or to the innermost enclosing
\* handler when the statement raised.
Leave(b, ok, raised, next, handler) ==
    /\ pc' = [pc EXCEPT ![b] = IF raised THEN handler ELSE next]
    /\ exc' = [exc EXCEPT ![b] = @ \/ raised]
    /\ err' = [err EXCEPT ![b] = @ \/ ~ok]

\* A subprocess step that changes nothing the model tracks.
RunStep(b, at, next, handler) ==
    /\ pc[b] = at
    /\ \E ok \in BOOLEAN : Leave(b, ok, Raises(ok), next, handler)
    /\ UNCHANGED <<hashVars, copyVars, loopdev, part, cwd, mounted, image, loopTable, calls>>

\* A Python library call (it raises on failure, whatever `check` is).
PyStep(b, at, next, handler) ==
    /\ pc[b] = at
    /\ \E ok \in BOOLEAN : Leave(b, ok, ~ok, next, handler)
    /\ UNCHANGED <<hashVars, copyVars, loopdev, part, cwd, mounted, image, loopTable, calls>>

(* ------------------------------- main -------------------------------- *)
\* lines 366-401: mkosi, the changes to the tree, the kernel and the
\* squashfs image: everything main does before it touches image.raw.
BuildRootFs(b) == RunStep(b, "build_rootfs", "truncate", "failed")

\* lines 126-127: open(outfile, "wb") creates or empties the file, then
\* truncate(GB) sizes it.  Either call may raise OSError.
Truncate(b) ==
    /\ pc[b] = "truncate"
    /\ \E outcome \in {"ok", "open_failed", "truncate_failed"} :
          /\ image' = [image EXCEPT ![b] =
                CASE outcome = "ok" ->
                        [NoImage EXCEPT !.exists = TRUE, !.size = GB]
                  [] outcome = "truncate_failed" ->
                        [NoImage EXCEPT !.exists = TRUE]
                  [] OTHER -> @]
          /\ Leave(b, outcome = "ok", outcome # "ok", "sfdisk", "failed")
    /\ UNCHANGED <<hashVars, copyVars, loopdev, part, cwd, mounted, loopTable, calls>>

\* lines 129-137: sfdisk can write the label only into an image that is
\* there and large enough for it.
Sfdisk(b) ==
    /\ pc[b] = "sfdisk"
    /\ \E ok \in BOOLEAN :
          /\ ok => image[b].exists /\ image[b].size = GB
          /\ image' = [image EXCEPT ![b].ptable =
                          IF ok THEN Layout(table, FIRST_LBA) ELSE @]
          /\ Leave(b, ok, Raises(ok), "write_boot_files", "failed")
    /\ UNCHANGED <<hashVars, copyVars, loopdev, part, cwd, mounted, loopTable, calls>>

(* ---------------------------- set_up_boot ---------------------------- *)
\* lines 181-182
WriteBootFiles(b) == PyStep(b, "write_boot_files", "objcopy", "failed")

\* lines 183-190
Objcopy(b) == RunStep(b, "objcopy", "hash", "failed")

\* lines 191-193: hash_pe_coff asserts the PE32+ magic and the empty
\* security directory of boot/ubuntu.efi, whatever objcopy produced.
Hash(b) ==
    /\ pc[b] = "hash"
    /\ \E magicOk \in BOOLEAN, secdirEmpty \in BOOLEAN :
          Leave(b, magicOk /\ secdirEmpty, ~(magicOk /\ secdirEmpty),
                "losetup", "failed")
    /\ UNCHANGED <<hashVars, copyVars, loopdev, part, cwd, mounted, image, loopTable, calls>>

(* ----------------------- attach_image_loopback ----------------------- *)
LosetupFindAny(tbl) == LoopDevs

\* `losetup --find`: the first unused loop device, if there is one.
LosetupFind(tbl) ==
    LET free == {d \in LoopDevs : tbl[d] = 0}
    IN  IF free = {} THEN {} ELSE {Min(free)}

\* lines 143-144: the acquire comes before the try, so a failure leaves
\* the function without entering the try/finally.  A failed losetup binds
\* nothing and prints nothing.
Losetup(b) ==
    /\ pc[b] = "losetup"
    /\ \/ \E d \in LosetupFind(loopTable) :
             /\ image[b].exists
             /\ loopTable' = [loopTable EXCEPT ![d] = b]
             /\ loopdev' = [loopdev EXCEPT ![b] = d]
             /\ Record(b, "losetup", 0, TRUE)
             /\ Leave(b, TRUE, FALSE, "mkfs_vfat", "failed")
       \/ /\ loopdev' = [loopdev EXCEPT ![b] = IF run_check THEN @ ELSE NoDev]
          /\ Record(b, "losetup", 0, FALSE)
          /\ Leave(b, FALSE, Raises(FALSE), "mkfs_vfat", "failed")
          /\ UNCHANGED loopTable
    /\ UNCHANGED <<hashVars, copyVars, part, cwd, mounted, image>>

\* The partition node <loopdev>pN is there when the device is bound and
\* the label on the image has an N-th entry.
HasPart(b, p) == loopdev[b] # NoDev /\ p <= Len(image[b].ptable)

\* mkfs on partition p: a fresh, empty filesystem of the given kind.
Mkfs(b, at, p, kind, next) ==
    /\ pc[b] = at
    /\ part' = [part EXCEPT ![b] = p]
    /\ \E ok \in BOOLEAN :
          /\ ok => HasPart(b, p)
          /\ image' = [image EXCEPT ![b] =
                IF ok THEN [@ EXCEPT !.fs[p] = kind,
                                     !.files = {f \in @ : f[1] # p}]
                ELSE @]
          /\ Leave(b, ok, Raises(ok), next, "detach")
    /\ UNCHANGED <<hashVars, copyVars, loopdev, cwd, mounted, loopTable, calls>>

MkfsVfat_skipped(b) ==
    /\ pc[b] = "mkfs_vfat"
    /\ part' = [part EXCEPT ![b] = 1]
    /\ pc' = [pc EXCEPT ![b] = "mount"]
    /\ UNCHANGED <<hashVars, copyVars, exc, err, calls, loopdev, cwd, mounted, image, loopTable>>

\* line 196
MkfsVfat(b) == Mkfs(b, "mkfs_vfat", 1, "vfat", "mount")

\* line 201
MkfsExt4(b) == Mkfs(b, "mkfs_ext4", 2, "ext4", "mount")

(* ----------------------------- mountedcwd ---------------------------- *)
\* lines 157-162: entering mountedcwd: TemporaryDirectory(dir="."), mount,
\* chdir into the mount point, yield to the with-body.  Both calls come
\* before the try: when mkdtemp raises nothing was created, and when mount
\* raises only the temporary directory is removed again (whether or not
\* that removal works, the exception propagates).
MountedcwdEnter(b) ==
    /\ pc[b] = "mount"
    /\ \E tmpOk \in BOOLEAN, ok \in BOOLEAN :
          /\ ok => tmpOk /\ HasPart(b, part[b]) /\ image[b].fs[part[b]] # "none"
          /\ mounted' = [mounted EXCEPT ![b] = IF ok THEN @ \cup {part[b]} ELSE @]
          /\ cwd' = [cwd EXCEPT ![b] =
                        IF tmpOk /\ ~Raises(ok) THEN "mnt" ELSE @]
          /\ IF tmpOk THEN Record(b, "mount", part[b], ok) ELSE UNCHANGED calls
          /\ Leave(b, ok, ~tmpOk \/ Raises(ok),
                   IF part[b] = 1 THEN "makedirs" ELSE "copy_squashfs", "detach")
    /\ UNCHANGED <<hashVars, copyVars, loopdev, part, image, loopTable>>

\* A file written below the current directory lands on the partition
\* mounted there.
WriteFile(b, name, at, next) ==
    /\ pc[b] = at
    /\ \E ok \in BOOLEAN :
          /\ image' = [image EXCEPT ![b].files =
                IF ok /\ cwd[b] = "mnt" /\ part[b] \in mounted[b]
                THEN @ \cup {<<part[b], name>>} ELSE @]
          /\ Leave(b, ok, ~ok, next, "umount")
    /\ UNCHANGED <<hashVars, copyVars, loopdev, part, cwd, mounted, loopTable, calls>>

\* line 198
Makedirs(b) == WriteFile(b, "EFI/boot", "makedirs", "copy_efi")

\* line 199: the boot executable goes to EFI/boot/bootx64.efi on the ESP
CopyEfi(b) == WriteFile(b, "EFI/boot/bootx64.efi", "copy_efi", "umount")

\* line 203: the root filesystem blob goes to root.squashfs on partition 2
CopySquashfs(b) == WriteFile(b, "root.squashfs", "copy_squashfs", "umount")

\* Where control goes when mountedcwd is left: on to the next statement of
\* set_up_boot, or, with an exception, to the finally of
\* attach_image_loopback.
AfterMountedcwd(b, raised) ==
    IF raised \/ part[b] = 2 THEN "detach" ELSE "mkfs_ext4"

MountedcwdExit_nofinally(b) ==
    /\ pc[b] = "umount"
    /\ \E ok \in BOOLEAN, rmOk \in BOOLEAN :
          /\ exc[b] => ok /\ rmOk
          /\ ok => part[b] \in mounted[b]
          /\ mounted' = [mounted EXCEPT ![b] =
                            IF ok /\ ~exc[b] THEN @ \ {part[b]} ELSE @]
          /\ cwd' = [cwd EXCEPT ![b] = IF exc[b] THEN @ ELSE "build"]
          /\ IF exc[b] THEN UNCHANGED calls
             ELSE Record(b, "umount", part[b], ok)
          /\ Leave(b, ok /\ rmOk, Raises(ok) \/ ~rmOk,
                   AfterMountedcwd(b, exc[b]), "detach")
    /\ UNCHANGED <<hashVars, copyVars, loopdev, part, image, loopTable>>

\* lines 163-165 and the exit of `with TemporaryDirectory` (line 158):
\* finally: chdir(".."), umount; then the temporary directory is removed,
\* with or without an exception propagating.
MountedcwdExit(b) ==
    /\ pc[b] = "umount"
    /\ \E ok \in BOOLEAN, rmOk \in BOOLEAN :
          /\ ok => part[b] \in mounted[b]
          /\ mounted' = [mounted EXCEPT ![b] = IF ok THEN @ \ {part[b]} ELSE @]
          /\ cwd' = [cwd EXCEPT ![b] = "build"]
          /\ Record(b, "umount", part[b], ok)
          /\ Leave(b, ok /\ rmOk, Raises(ok) \/ ~rmOk,
                   AfterMountedcwd(b, exc[b]), "detach")
    /\ UNCHANGED <<hashVars, copyVars, loopdev, part, image, loopTable>>

(* ------------------ attach_image_loopback: finally ------------------- *)
\* `losetup --detach` on a device none of whose partitions is open unbinds
\* it; on a device still in use the kernel only marks it autoclear and the
\* command succeeds with the device still bound.
LosetupDetach(tbl, d, busy) ==
    IF busy THEN tbl ELSE [tbl EXCEPT ![d] = 0]

Detach_nofinally(b) ==
    /\ pc[b] = "detach"
    /\ \E ok \in BOOLEAN :
          /\ exc[b] => ok
          /\ ok => loopdev[b] # NoDev
          /\ loopTable' = IF ok /\ ~exc[b]
                          THEN LosetupDetach(loopTable, loopdev[b], mounted[b] # {})
                          ELSE loopTable
          /\ IF exc[b] THEN UNCHANGED calls ELSE Record(b, "detach", 0, ok)
          /\ Leave(b, ok, Raises(ok),
                   IF exc[b] THEN "failed" ELSE "compress", "failed")
    /\ UNCHANGED <<hashVars, copyVars, loopdev, part, cwd, mounted, image>>

\* lines 146-149: finally: run(["losetup", "--detach", loopdev])
Detach(b) ==
    /\ pc[b] = "detach"
    /\ \E ok \in BOOLEAN :
          /\ ok => loopdev[b] # NoDev
          /\ loopTable' = IF ok
                          THEN LosetupDetach(loopTable, loopdev[b], mounted[b] # {})
                          ELSE loopTable
          /\ Record(b, "detach", 0, ok)
          /\ Leave(b, ok, Raises(ok),
                   IF exc[b] THEN "failed" ELSE "compress", "failed")
    /\ UNCHANGED <<hashVars, copyVars, loopdev, part, cwd, mounted, image>>

(* -------------------------- compress_product ------------------------- *)
\* lines 213-220 (called at line 405)
Compress(b) == RunStep(b, "compress", "done", "failed")

(* ---------------------------- hash_pe_coff --------------------------- *)
\* Largest number of whole 4096-byte reads the bytes after offset 304 fill.
MaxTailChunks == 1

CHUNK == 4096

Byte == 0 .. 255

\* fh.read(n) at position pos: up to n bytes, fewer at the end of the file.
ReadAt(file, pos, n) ==
    SubSeq(file, pos + 1, IF pos + n <= Len(file) THEN pos + n ELSE Len(file))

\* b[lo:hi] on bytes
Slice(s, lo, hi) ==
    SubSeq(s, lo + 1, IF hi <= Len(s) THEN hi ELSE Len(s))

PE32PLUS_MAGIC == << 11, 2 >>

Zero8 == [i \in 1 .. 8 |-> 0]

\* hashlib's sha256 is not computed: a digest stands for the message it was
\* computed from (two digests are equal iff the messages are).
Sha256Hex(msg) == [sha256 |-> msg]

NoDigest == [failed |-> "not called"]

AssertionError == [failed |-> "AssertionError"]

\* The file the current call reads: the file itself, then its variant.
Variant(file, flip) ==
    IF flip < 0 \/ flip >= Len(file) THEN file
    ELSE [file EXCEPT ![flip + 1] = (@ + 1) % 256]

HFile == IF hrun = 1 THEN hfile ELSE Variant(hfile, hflip)

HashStep(at, next, newpos, newbuf, newhasher) ==
    /\ hpc = at
    /\ hpc' = next
    /\ hpos' = newpos
    /\ hbuf' = newbuf
    /\ hasher' = newhasher
    /\ UNCHANGED <<buildVars, copyVars, hfile, hflip, hrun, hresult>>

\* A call ends: its result is kept, and the variant's call starts.
HashReturn(at, result) ==
    /\ hpc = at
    /\ hresult' = [hresult EXCEPT ![hrun] = result]
    /\ IF hrun = 1
       THEN hrun' = 2 /\ hpc' = "read_header"
       ELSE hrun' = hrun /\ hpc' = "finished"
    /\ hpos' = 0 /\ hbuf' = << >> /\ hasher' = << >>
    /\ UNCHANGED <<buildVars, copyVars, hfile, hflip>>

\* lines 168-169
HashReadHeader ==
    HashStep("read_header", "assert_magic",
             Len(ReadAt(HFile, 0, 216)), ReadAt(HFile, 0, 216), << >>)

\* line 170
HashAssertMagic ==
    \/ /\ Slice(hbuf, 152, 154) = PE32PLUS_MAGIC
       /\ HashStep("assert_magic", "update_header", hpos, hbuf, hasher)
    \/ /\ Slice(hbuf, 152, 154) # PE32PLUS_MAGIC
       /\ HashReturn("assert_magic", AssertionError)

\* line 171
HashUpdateHeader ==
    HashStep("update_header", "skip_checksum", hpos, hbuf, hasher \o hbuf)

HashSkipChecksum_missing ==
    HashStep("skip_checksum", "update_dirs", hpos, hbuf, hasher)

\* line 172
HashSkipChecksum ==
    HashStep("skip_checksum", "update_dirs",
             hpos + Len(ReadAt(HFile, hpos, 4)), hbuf, hasher)

\* line 173
HashUpdateDirs ==
    HashStep("update_dirs", "assert_secdir",
             hpos + Len(ReadAt(HFile, hpos, 76)), hbuf,
             hasher \o ReadAt(HFile, hpos, 76))

\* line 174
HashAssertSecdir ==
    LET got == ReadAt(HFile, hpos, 8)
    IN  \/ /\ got = Zero8
           /\ HashStep("assert_secdir", "loop", hpos + Len(got), hbuf, hasher)
        \/ /\ got # Zero8
           /\ HashReturn("assert_secdir", AssertionError)

\* lines 175-176
HashLoop ==
    LET got == ReadAt(HFile, hpos, CHUNK)
    IN  IF got # << >>
        THEN HashStep("loop", "loop", hpos + Len(got), got, hasher \o got)
        ELSE HashStep("loop", "return", hpos, got, hasher)

\* line 178
HashDigest == HashReturn("return", Sha256Hex(hasher))

NextHash ==
    \/ HashReadHeader \/ HashAssertMagic \/ HashUpdateHeader
    \/ HashSkipChecksum \/ HashUpdateDirs \/ HashAssertSecdir
    \/ HashLoop \/ HashDigest

\* A PE32+ image of n bytes with an empty security directory, as far as it
\* reaches; the other bytes are arbitrary.
StubFile(n) ==
    [i \in 1 .. n |->
        IF i = 153 THEN 11
        ELSE IF i = 154 THEN 2
        ELSE IF i \in 297 .. 304 THEN 0
        ELSE (7 * i + 13) % 256]

HashLens ==
    {0, 100, 153, 154, 200, 216, 219, 220, 296, 300, 303, 304, 305}
    \cup {304 + k * CHUNK + d : k \in 1 .. MaxTailChunks, d \in {0, 1}}

\* Offsets whose byte the variant changes: each region's first and last
\* byte, and the file's last byte.
HashFlips(n) ==
    {f \in {-1, 0, 151, 152, 153, 154, 215, 216, 219, 220, 295, 296, 303,
            304, n - 1} : f < n}

(* -------------------------------- copy ------------------------------- *)
\* Largest number of whole sectors in the blob.
MaxBlobSectors == 2

\* out_fh.write(data) at position pos: the bytes replace what is there and
\* extend the file past its end.
WriteAt(file, pos, data) ==
    LET n == IF pos + Len(data) > Len(file) THEN pos + Len(data) ELSE Len(file)
    IN  [i \in 1 .. n |->
            IF i > pos /\ i <= pos + Len(data) THEN data[i - pos] ELSE file[i]]

\* line 118
CopyRead ==
    /\ cpc = "read"
    /\ cdata' = ReadAt(cin, cinpos, SECTOR)
    /\ cinpos' = cinpos + Len(ReadAt(cin, cinpos, SECTOR))
    /\ creads' = creads + 1
    /\ cpc' = "test"
    /\ UNCHANGED <<buildVars, hashVars, cin, cout, coutpos, cstart>>

CopyTest_short ==
    /\ cpc = "test"
    /\ cpc' = IF Len(cdata) < SECTOR THEN "done" ELSE "write"
    /\ UNCHANGED <<buildVars, hashVars, cin, cinpos, cout, coutpos, cdata,
                   creads, cstart>>

\* lines 119-120
CopyTest ==
    /\ cpc = "test"
    /\ cpc' = IF Len(cdata) = 0 THEN "done" ELSE "write"
    /\ UNCHANGED <<buildVars, hashVars, cin, cinpos, cout, coutpos, cdata,
                   creads, cstart>>

\* line 122
CopyWrite ==
    /\ cpc = "write"
    /\ cout' = WriteAt(cout, coutpos, cdata)
    /\ coutpos' = coutpos + Len(cdata)
    /\ cpc' = "read"
    /\ UNCHANGED <<buildVars, hashVars, cin, cinpos, cdata, creads, cstart>>

NextCopy == CopyRead \/ CopyTest \/ CopyWrite

Blob(n) == [i \in 1 .. n |-> (3 * i + 1) % 251]

Target(n) == [i \in 1 .. n |-> 251 + (i % 5)]

BlobLens == {k * SECTOR + d : k \in 0 .. MaxBlobSectors, d \in {0, 1, SECTOR - 1}}

(* --------------------------- specifications -------------------------- *)
\* The statements of `with attach_image_loopback(raw_image)` (lines
\* 195-203), the acquire and the finally included.
LoopSteps(b) ==
    \/ Losetup(b) \/ MkfsVfat(b) \/ MkfsExt4(b)
    \/ MountedcwdEnter(b) \/ Makedirs(b) \/ CopyEfi(b) \/ CopySquashfs(b)
    \/ MountedcwdExit(b)
    \/ Detach(b)

Build(b) ==
    \/ BuildRootFs(b)
    \/ Truncate(b) \/ Sfdisk(b)
    \/ WriteBootFiles(b) \/ Objcopy(b) \/ Hash(b)
    \/ LoopSteps(b)
    \/ Compress(b)

\* image.raw as a complete earlier build left it in the output directory.
BuiltImage ==
    [exists |-> TRUE, size |-> GB, ptable |-> Layout(table, FIRST_LBA),
     fs |-> [p \in Parts |-> IF p = 1 THEN "vfat" ELSE "ext4"],
     files |-> {<<1, "EFI/boot">>, <<1, "EFI/boot/bootx64.efi">>,
                <<2, "root.squashfs">>}]

\* main is entered; the output directory is new or holds an earlier image.
InitBuild ==
    /\ pc = [b \in Builds |-> "build_rootfs"]
    /\ exc = [b \in Builds |-> FALSE]
    /\ err = [b \in Builds |-> FALSE]
    /\ loopdev = [b \in Builds |-> NoDev]
    /\ part = [b \in Builds |-> 0]
    /\ cwd = [b \in Builds |-> "build"]
    /\ mounted = [b \in Builds |-> {}]
    /\ image \in [Builds -> {NoImage, BuiltImage}]
    /\ calls = [b \in Builds |-> [k \in Commands |-> 0]]
    /\ loopTable = [d \in LoopDevs |-> 0]

\* Every build stands at the `with attach_image_loopback` of set_up_boot
\* (line 195): all its earlier steps succeeded, image.raw is 1 GiB and
\* carries the label.
InitAtLoop ==
    /\ pc = [b \in Builds |-> "losetup"]
    /\ exc = [b \in Builds |-> FALSE]
    /\ err = [b \in Builds |-> FALSE]
    /\ loopdev = [b \in Builds |-> NoDev]
    /\ part = [b \in Builds |-> 0]
    /\ cwd = [b \in Builds |-> "build"]
    /\ mounted = [b \in Builds |-> {}]
    /\ image = [b \in Builds |->
                  [NoImage EXCEPT !.exists = TRUE, !.size = GB,
                                  !.ptable = Layout(table, FIRST_LBA)]]
    /\ calls = [b \in Builds |-> [k \in Commands |-> 0]]
    /\ loopTable = [d \in LoopDevs |-> 0]

\* No hash_pe_coff call under way.
HashIdle ==
    /\ hfile = << >> /\ hflip = -1 /\ hrun = 1 /\ hpc = "idle"
    /\ hpos = 0 /\ hbuf = << >> /\ hasher = << >>
    /\ hresult = [r \in 1 .. 2 |-> NoDigest]

\* No copy call under way.
CopyIdle ==
    /\ cin = << >> /\ cinpos = 0 /\ cout = << >> /\ coutpos = 0
    /\ cdata = << >> /\ cpc = "idle" /\ creads = 0
    /\ cstart = [file |-> << >>, pos |-> 0]

Init == InitBuild /\ HashIdle /\ CopyIdle

\* One build, from the entry of main to the end of the process.
Next == Build(1)

Spec == Init /\ [][Next]_vars

\* Builds on one host, each in its own directory with its own image.raw,
\* interleaved at the granularity of their external steps, from the point
\* where they start to use loop devices.
NextConc == \E b \in Builds : LoopSteps(b) \/ Compress(b)

InitConc == InitAtLoop /\ HashIdle /\ CopyIdle

SpecConc == InitConc /\ [][NextConc]_vars

\* hash_pe_coff on a file and on a variant of it.
InitHash ==
    /\ InitBuild /\ CopyIdle
    /\ \E n \in HashLens :
          /\ hfile = StubFile(n)
          /\ hflip \in HashFlips(n)
    /\ hrun = 1 /\ hpc = "read_header"
    /\ hpos = 0 /\ hbuf = << >> /\ hasher = << >>
    /\ hresult = [r \in 1 .. 2 |-> NoDigest]

SpecHash == InitHash /\ [][NextHash]_vars

\* copy of a blob into a target file at some position.
InitCopy ==
    /\ InitBuild /\ HashIdle
    /\ \E n \in BlobLens : cin = Blob(n)
    /\ \E t \in {0, 1, 3} : cout = Target(t * SECTOR)
    /\ coutpos \in {p \in {0, 1, SECTOR, 2 * SECTOR} : p <= Len(cout)}
    /\ cinpos = 0 /\ cdata = << >> /\ cpc = "read" /\ creads = 0
    /\ cstart = [file |-> cout, pos |-> coutpos]

SpecCopy == InitCopy /\ [][NextCopy]_vars

(* ------------------------------ claims ------------------------------- *)
\* Statements inside `with attach_image_loopback(...)`, its finally included.
LoopScope ==
    {"mkfs_vfat", "mkfs_ext4", "mount", "makedirs", "copy_efi",
     "copy_squashfs", "umount", "detach"}

\* Statements inside a `with mountedcwd(...)` body, its finally included.
MountScope == {"makedirs", "copy_efi", "copy_squashfs", "umount"}

\* set_up_boot has returned or has propagated an exception.
LeftSetUpBoot(b) == pc[b] \in {"compress", "done", "failed"}

Attached(b) == \E d \in LoopDevs : loopTable[d] = b

BootInstalled(b) == <<1, "EFI/boot/bootx64.efi">> \in image[b].files

PayloadCopied(b) == <<2, "root.squashfs">> \in image[b].files

C2_LayoutFits ==
    \A b \in Builds :
        LET t == image[b].ptable
        IN  t # << >> =>
              /\ Len(t) = 2
              /\ t[1].start = 2048
              /\ t[1].start + t[1].size = 2048 + 409600
              /\ t[2].start >= t[1].start + t[1].size
              /\ \A i \in DOMAIN t : t[i].start >= 2048 /\ t[i].size > 0
              /\ t[2].start + t[2].size + FOOTER_SECTORS
                    <= image[b].size \div SECTOR

C2_Witness ==
    \E b \in Builds :
        /\ pc[b] = "write_boot_files"
        /\ Len(image[b].ptable) = 2
        /\ image[b].ptable[2].name = "State Partition"

\* C9: in the 1 GiB image the ESP has exactly 409600 sectors (200 MiB) and
\* the remaining-space partition exactly 1 GiB/512 - 2048 - 409600 - footer.
C9_RemainingExact ==
    \A b \in Builds :
        LET t == image[b].ptable
        IN  t # << >> =>
              /\ image[b].size = 1073741824
              /\ t[1].size = 409600
              /\ t[1].size * 512 = 200 * 1024 * 1024
              /\ t[2].size = (1073741824 \div 512) - 2048 - 409600 - FOOTER_SECTORS
              /\ t[2].size = 1685470

C9_Witness ==
    \E b \in Builds :
        /\ pc[b] = "done"
        /\ Len(image[b].ptable) = 2
        /\ image[b].ptable[2].size = 1685470

\* What C4 shares with its amendment: the partition table is written before
\* any partition is formatted, and each partition is formatted before it is
\* mounted and anything is copied into it.
C4_TableFormatCopyOrder ==
    \A b \in Builds :
        /\ pc[b] \in LoopScope => Len(image[b].ptable) = 2
        /\ \A p \in Parts : image[b].fs[p] # "none" => Len(image[b].ptable) = 2
        /\ (pc[b] \in {"mount"} \cup (MountScope \ {"umount"}) /\ ~exc[b])
              => image[b].fs[part[b]] = (IF part[b] = 1 THEN "vfat" ELSE "ext4")
        /\ \A f \in image[b].files : image[b].fs[f[1]] # "none"

C5_FailureAborts ==
    /\ [](\A b \in Builds :
            /\ err[b] => pc[b] \in {"umount", "detach", "failed"}
            /\ err[b] = exc[b]
            /\ pc[b] \in {"compress", "done"} => ~err[b]
            /\ (err[b] /\ pc[b] # "failed") => ENABLED Build(b))
    /\ [][\A b \in Builds :
            /\ err[b] => image'[b] = image[b] /\ pc'[b] \notin {"compress", "done"}
            /\ image[b].exists => image'[b].exists]_vars

C5_Witness ==
    \E b \in Builds :
        /\ pc[b] = "failed"
        /\ image[b].exists
        /\ image[b].fs[1] = "vfat"
        /\ BootInstalled(b)
        /\ image[b].fs[2] = "none"
        /\ Issued(b, "detach", 0) = 1

\* A step of build b that runs a command on its loop device.
DeviceStep(b) ==
    /\ pc[b] \in LoopScope
    /\ pc'[b] # pc[b] \/ calls'[b] # calls[b]

\* C6: under every interleaving of the builds a loop device is attached to
\* at most one build at a time, a build formats, mounts, unmounts and
\* detaches only the device its own acquire returned while that device is
\* bound to its image, and an acquire returns only a device that is free.
C6_LoopDeviceExclusive ==
    /\ [](\A b \in Builds :
            /\ pc[b] \in LoopScope
                  => loopdev[b] \in LoopDevs /\ loopTable[loopdev[b]] = b
            /\ \A c \in Builds :
                  (c # b /\ pc[b] \in LoopScope /\ pc[c] \in LoopScope)
                      => loopdev[b] # loopdev[c]
            /\ Cardinality({d \in LoopDevs : loopTable[d] = b}) <= 1)
    /\ [][\A b \in Builds :
            /\ DeviceStep(b) => loopTable[loopdev[b]] = b
            /\ (pc[b] = "losetup" /\ pc'[b] = "mkfs_vfat")
                  => loopTable[loopdev'[b]] = 0 /\ loopTable'[loopdev'[b]] = b
            /\ \A d \in LoopDevs :
                  (loopTable[d] = b /\ loopTable'[d] # b)
                      => pc[b] = "detach" /\ loopdev[b] = d /\ loopTable'[d] = 0
          ]_vars

\* One build holds /dev/loop1 again after another build used and detached
\* it, while a third party (the other build) is long done with it.
C6_Witness ==
    \E b, c \in Builds :
        /\ b # c
        /\ loopdev[b] = 1 /\ Succeeded(b, "detach", 0) = 1
        /\ loopdev[c] = 1 /\ pc[c] = "copy_squashfs"
        /\ loopTable[1] = c

PassesChecks(f) ==
    /\ Len(f) >= 304
    /\ f[153] = 11 /\ f[154] = 2
    /\ \A i \in 297 .. 304 : f[i] = 0

\* The bytes at offsets [0,216) ++ [220,296) ++ [304,EOF) of file f.
MeasuredBytes(f) ==
    [i \in 1 .. Len(f) - 12 |->
        IF i <= 216 THEN f[i] ELSE IF i <= 292 THEN f[i + 4] ELSE f[i + 12]]

\* C7: a call on a file that passes both checks returns the digest of
\* exactly the bytes [0,216) ++ [220,296) ++ [304,EOF); a call on any other
\* file fails without a digest.  So the digest of a file and of a variant
\* that differs in one byte are equal when that byte is one of the four
\* checksum bytes (or there is no difference) and differ when it is a
\* hashed byte.
C7_MeasuresAllButChecksumAndSecdir ==
    hpc = "finished" =>
        LET file(r) == IF r = 1 THEN hfile ELSE Variant(hfile, hflip)
        IN  /\ \A r \in 1 .. 2 :
                  IF PassesChecks(file(r))
                  THEN hresult[r] = Sha256Hex(MeasuredBytes(file(r)))
                  ELSE hresult[r] = AssertionError
            /\ (PassesChecks(file(1)) /\ PassesChecks(file(2))) =>
                  /\ (hflip \in 216 .. 219 \/ hflip = -1)
                        => hresult[1] = hresult[2]
                  /\ (hflip \in 0 .. 215 \/ hflip \in 220 .. 295 \/ hflip >= 304)
                        => hresult[1] # hresult[2]

\* A file with more than one 4096-byte read after the security directory
\* was measured, and so was its variant with a changed checksum byte.
C7_Witness ==
    /\ hpc = "finished"
    /\ Len(hfile) > 304 + CHUNK
    /\ hflip = 216
    /\ hresult[1] = Sha256Hex(MeasuredBytes(hfile))
    /\ hresult[2] = hresult[1]

\* C8: copy ends, and then the target holds, from out_fh's position at the
\* call on, exactly the blob's bytes in order; every other byte of the
\* target is as before, the target grew only as far as the blob reaches,
\* and out_fh stands right behind the blob.
C8_CopyIsBytePreserving ==
    /\ cpc \in {"read", "test", "write"} => ENABLED NextCopy
    /\ creads <= Len(cin) \div SECTOR + 2
    /\ cpc = "done" =>
          LET n == Len(cin)
              at == cstart.pos
              old == cstart.file
          IN  /\ cinpos = n
              /\ coutpos = at + n
              /\ SubSeq(cout, at + 1, at + n) = cin
              /\ Len(cout) = (IF at + n > Len(old) THEN at + n ELSE Len(old))
              /\ \A i \in 1 .. Len(cout) :
                    (i <= at \/ i > at + n) => cout[i] = old[i]

\* A blob that is no multiple of 512 bytes was copied into the middle of
\* a larger target.
C8_Witness ==
    /\ cpc = "done"
    /\ Len(cin) = SECTOR + 1
    /\ cstart.pos = 1
    /\ Len(cstart.file) = 3 * SECTOR
    /\ creads = 3
====
